---- MODULE Spec2Model ----
(***************************************************************************)
(* Heightfield-to-mesh conversion of terrain-model:                        *)
(* gtm2/generate_terrain.py (read_dem, generate_terrain), and its caller   *)
(* geo.py (dem_to_model2) with the call site in build_mesh.py.             *)
(*                                                                         *)
(* Numbers.  The program computes in floating point; the model keeps the   *)
(* same quantities as exact integers in fixed units:                       *)
(*   - z_scale is held in tenths (z_scale = 10 stands for 1.0, 4 for 0.4), *)
(*     so a scaled height z is held as 10*z and the Builder's threshold    *)
(*     -5000 as -50000;                                                    *)
(*   - X and Y of a vertex are held doubled, because the centre of the     *)
(*     extent is a half-integer: (xmax + xmin) / 2.0.                      *)
(* Elevations, offsets and the geotransform are integers.                  *)
(***************************************************************************)
EXTENDS Integers, Sequences, FiniteSets, TLC

VARIABLES
    pc,                            \* position in generate_terrain
    dem_rows, dem_cols,            \* grid dimensions
    dem_geotransform,              \* [xmin, ymax, xres, yres] of the raster
    dem_array,                     \* [cell -> elevation]
    z_scale, zmean_total,          \* arguments of generate_terrain
    clippoly_layer_extent_cent,    \* <<2*xcent, 2*ycent>>
    polyhedron_points_floor_array, \* [0 .. rows*cols-1 -> <<2x, 2y, 10z>>]
    polyhedron_faces_array,        \* [cell -> [0..15 -> <<v1, v2, v3>>]]
    polyhedron_faces_clean,        \* sequence of faces
    polyhedron_points,             \* sequence of points handed to the script
    c,                             \* the script returned by generate_terrain
    i, j,                          \* loop indices of the running stage
    scanned,                       \* the reads of the face table by the scans:
                                   \* <<cell, <<i_neighbour, j_neighbour>>>>
    scad_file,                     \* the temporary script file: whether it
                                   \* exists, and the script written to it
    retcode, stderr,               \* what the Shell call returned
    openscad_runs,                 \* number of Shell calls made
    build_mesh_result,             \* what build_mesh returned
    visited                        \* the cells a loop has been through, when
                                   \* its iterations run in another order
                                   \* than row-major

\* the variables of dem_to_model2 and build_mesh
tool_vars == <<scad_file, retcode, stderr, openscad_runs, build_mesh_result>>

vars == <<pc, dem_rows, dem_cols, dem_geotransform, dem_array, z_scale,
          zmean_total, clippoly_layer_extent_cent,
          polyhedron_points_floor_array, polyhedron_faces_array,
          polyhedron_faces_clean, polyhedron_points, c, i, j, scanned,
          tool_vars, visited>>

---------------------------------------------------------------------------
(* Bounds of the explored inputs *)

MaxRows == 3
MaxCols == 3
\* at most this many samples of the raster lie outside the accepted range
MaxNoData == 1
\* widest one-row raster explored with arbitrary samples
MaxMaskCols == 2
\* largest raster, in cells, whose loops are explored in every order
MaxAnyCells == 9

\* The calls that are explored: z_scale in tenths (10 is the command line's
\* default 1.0, 20 the default argument 2.0, 4 a flattening 0.4), zmean_total,
\* the raster's geotransform, and the elevation profile of the in-range
\* samples (flat at 0, or a ramp).
Scenarios ==
    { [z_scale |-> 10, zmean_total |-> 0, flat |-> TRUE,
       geotransform |-> [xmin |-> 0, ymax |-> 0, xres |-> 1, yres |-> 1]],
      [z_scale |-> 20, zmean_total |-> 0, flat |-> FALSE,
       geotransform |-> [xmin |-> -3, ymax |-> 5, xres |-> 2, yres |-> 1]],
      [z_scale |-> 4, zmean_total |-> 0, flat |-> FALSE,
       geotransform |-> [xmin |-> 0, ymax |-> 0, xres |-> 1, yres |-> 1]],
      [z_scale |-> 10, zmean_total |-> -6000, flat |-> TRUE,
       geotransform |-> [xmin |-> -3, ymax |-> 5, xres |-> 2, yres |-> 1]] }

---------------------------------------------------------------------------
(* read_dem *)

dem_tmp_nodata == -9999
dem_tmp_nodata_range_external == <<-9999, 9999>>

\* variant: the bounds of the accepted range are masked as well
MaskSample_m(v) ==
    LET v1 == IF v <= dem_tmp_nodata_range_external[1] THEN dem_tmp_nodata ELSE v
        v2 == IF v1 >= dem_tmp_nodata_range_external[2] THEN dem_tmp_nodata ELSE v1
        v3 == IF v2 < -500 THEN -9999 ELSE v2
    IN  v3

\* the three masking assignments of read_dem applied to one sample
MaskSample(v) ==
    LET v1 == IF v < dem_tmp_nodata_range_external[1] THEN dem_tmp_nodata ELSE v
        v2 == IF v1 > dem_tmp_nodata_range_external[2] THEN dem_tmp_nodata ELSE v1
        v3 == IF v2 < -500 THEN -9999 ELSE v2
    IN  v3

Cells == (0 .. dem_rows - 1) \X (0 .. dem_cols - 1)

\* elevation profiles of the in-range samples: flat at 0, or a ramp
Elevation(flat, r, k) == IF flat THEN 0 ELSE 100 * r + 10 * k

\* an elevation just above the accepted range, as read from the raster
AboveRange == dem_tmp_nodata_range_external[2] + 1

Init ==
    /\ pc = "read_dem"
    /\ dem_rows \in 1 .. MaxRows
    /\ dem_cols \in 1 .. MaxCols
    /\ \E sc \in Scenarios :
       \E bad \in SUBSET ((0 .. dem_rows - 1) \X (0 .. dem_cols - 1)) :
          /\ Cardinality(bad) <= MaxNoData
          /\ dem_geotransform = sc.geotransform
          /\ z_scale = sc.z_scale
          /\ zmean_total = sc.zmean_total
          /\ dem_array = [p \in (0 .. dem_rows - 1) \X (0 .. dem_cols - 1) |->
                            IF p \in bad THEN AboveRange
                                         ELSE Elevation(sc.flat, p[1], p[2])]
    /\ clippoly_layer_extent_cent = <<0, 0>>
    /\ polyhedron_points_floor_array = <<>>
    /\ polyhedron_faces_array = <<>>
    /\ polyhedron_faces_clean = <<>>
    /\ polyhedron_points = <<>>
    /\ c = <<>>
    /\ i = 0
    /\ j = 0
    /\ scanned = {}
    /\ scad_file = [exists |-> FALSE, lines |-> <<>>]
    /\ retcode = 0
    /\ stderr = <<>>
    /\ openscad_runs = 0
    /\ build_mesh_result = "none"
    /\ visited = {}

\* samples around every threshold of the masking
RasterSamples == {-10000, -9999, -9998, -501, -500, -499, 0, 9998, 9999, 10000}

\* a one-row raster of arbitrary samples, read with the first scenario
InitMask ==
    /\ pc = "read_dem"
    /\ dem_rows = 1
    /\ dem_cols \in 1 .. MaxMaskCols
    /\ dem_array \in [{0} \X (0 .. dem_cols - 1) -> RasterSamples]
    /\ dem_geotransform = [xmin |-> 0, ymax |-> 0, xres |-> 1, yres |-> 1]
    /\ z_scale = 10
    /\ zmean_total = 0
    /\ clippoly_layer_extent_cent = <<0, 0>>
    /\ polyhedron_points_floor_array = <<>>
    /\ polyhedron_faces_array = <<>>
    /\ polyhedron_faces_clean = <<>>
    /\ polyhedron_points = <<>>
    /\ c = <<>>
    /\ i = 0
    /\ j = 0
    /\ scanned = {}
    /\ scad_file = [exists |-> FALSE, lines |-> <<>>]
    /\ retcode = 0
    /\ stderr = <<>>
    /\ openscad_runs = 0
    /\ build_mesh_result = "none"
    /\ visited = {}

\* variant: the selection of the samples is never found empty
EmptyData_m(masked) == FALSE

\* the selection dem_intermed_array != dem_tmp_nodata is empty, so that
\* np.nanmin raises
EmptyData(masked) == \A p \in DOMAIN masked : masked[p] = dem_tmp_nodata

\* read_dem: mask the samples in place; when nothing is left the run ends in
\* the except branch ("exit": sys.exit(), or the NameError of scad_dirpath
\* when the module is imported)
ReadDem ==
    /\ pc = "read_dem"
    /\ LET masked == [p \in Cells |-> MaskSample(dem_array[p])]
       IN  /\ dem_array' = masked
           /\ pc' = IF EmptyData(masked) THEN "exit" ELSE "prepare"
    /\ UNCHANGED <<visited, dem_rows, dem_cols, dem_geotransform, z_scale, zmean_total,
                   clippoly_layer_extent_cent, polyhedron_points_floor_array,
                   polyhedron_faces_array, polyhedron_faces_clean,
                   polyhedron_points, c, i, j, scanned, tool_vars>>

---------------------------------------------------------------------------
(* generate_terrain: set-up *)

dem_xmin == dem_geotransform.xmin
dem_ymax == dem_geotransform.ymax
dem_xres == dem_geotransform.xres
dem_yres == dem_geotransform.yres
dem_xdist == (dem_xmin + dem_cols * dem_xres) - dem_xmin
dem_ydist == dem_ymax - (dem_ymax - dem_rows * dem_yres)

\* no clip polygon: the extent is the raster's; offset the elevations; allocate
Prepare ==
    /\ pc = "prepare"
    /\ LET xmin == dem_xmin
           xmax == dem_xmin + dem_xdist
           ymin == dem_ymax - dem_ydist
           ymax == dem_ymax
       IN  clippoly_layer_extent_cent' = <<xmax + xmin, ymax + ymin>>
    /\ dem_array' = [p \in Cells |-> dem_array[p] - zmean_total]
    /\ polyhedron_faces_array' = [p \in Cells |-> [k \in 0 .. 15 |-> <<0, 0, 0>>]]
    /\ polyhedron_points_floor_array' =
           [n \in 0 .. dem_rows * dem_cols - 1 |-> <<0, 0, 0>>]
    /\ pc' = "build"
    /\ i' = 0
    /\ j' = 0
    /\ UNCHANGED <<visited, dem_rows, dem_cols, dem_geotransform, z_scale, zmean_total,
                   polyhedron_faces_clean, polyhedron_points, c, scanned,
                   tool_vars>>

---------------------------------------------------------------------------
(* generate_terrain: the Builder loop *)

\* variant: the offset is taken off once more after the scaling
ScaledZ_m(v, scale) == (v * scale) - 10 * zmean_total

\* an (offset) elevation times the exaggeration, in tenths
ScaledZ(v, scale) == v * scale

\* scaled height of a sample, in tenths
ZOf(r, k) == ScaledZ(dem_array[<<r, k>>], z_scale)

\* the Builder's test "z > -5000", on tenths
AboveThreshold(z) == z > -50000

\* variant: the floor index strides by the number of rows
point_floor_m(r, k) == (dem_rows * dem_cols) + (r * dem_rows) + k

\* variant: the ceiling index strides by one less than the number of columns
point_ceil_m(r, k) == (r * (dem_cols - 1)) + k

point_ceil(r, k) == (r * dem_cols) + k
point_floor(r, k) == (dem_rows * dem_cols) + (r * dem_cols) + k

\* variant: the ceiling triangle of slot 0 is wound the other way round
FacesABC_m(r, k) ==
    LET ac == point_ceil(r, k)       bc == point_ceil(r + 1, k)
        cc == point_ceil(r, k + 1)
        af == point_floor(r, k)      bf == point_floor(r + 1, k)
        cf == point_floor(r, k + 1)
    IN  [s \in 0 .. 7 |->
           CASE s = 0 -> <<ac, bc, cc>>
             [] s = 1 -> <<bf, af, ac>>
             [] s = 2 -> <<bc, bf, ac>>
             [] s = 3 -> <<cf, bf, bc>>
             [] s = 4 -> <<cc, cf, bc>>
             [] s = 5 -> <<af, cf, cc>>
             [] s = 6 -> <<ac, af, cc>>
             [] s = 7 -> <<af, bf, cf>>]

\* slots 0..7 of cell (r, k); A = (r,k), B = (r+1,k), C = (r,k+1)
FacesABC(r, k) ==
    LET ac == point_ceil(r, k)       bc == point_ceil(r + 1, k)
        cc == point_ceil(r, k + 1)
        af == point_floor(r, k)      bf == point_floor(r + 1, k)
        cf == point_floor(r, k + 1)
    IN  [s \in 0 .. 7 |->
           CASE s = 0 -> <<cc, bc, ac>>
             [] s = 1 -> <<bf, af, ac>>
             [] s = 2 -> <<bc, bf, ac>>
             [] s = 3 -> <<cf, bf, bc>>
             [] s = 4 -> <<cc, cf, bc>>
             [] s = 5 -> <<af, cf, cc>>
             [] s = 6 -> <<ac, af, cc>>
             [] s = 7 -> <<af, bf, cf>>]

\* variant: the diagonal wall triangle of slot 13 is wound as that of slot 3
FacesBCD_m(r, k) ==
    LET bc == point_ceil(r + 1, k)   cc == point_ceil(r, k + 1)
        dc == point_ceil(r + 1, k + 1)
        bf == point_floor(r + 1, k)  cf == point_floor(r, k + 1)
        df == point_floor(r + 1, k + 1)
    IN  [s \in 8 .. 15 |->
           CASE s = 8 -> <<cc, dc, bc>>
             [] s = 9 -> <<dc, df, bf>>
             [] s = 10 -> <<dc, bf, bc>>
             [] s = 11 -> <<cc, cf, df>>
             [] s = 12 -> <<cc, df, dc>>
             [] s = 13 -> <<cf, bf, bc>>
             [] s = 14 -> <<cc, bc, cf>>
             [] s = 15 -> <<bf, df, cf>>]

\* slots 8..15 of cell (r, k); B = (r+1,k), C = (r,k+1), D = (r+1,k+1)
FacesBCD(r, k) ==
    LET bc == point_ceil(r + 1, k)   cc == point_ceil(r, k + 1)
        dc == point_ceil(r + 1, k + 1)
        bf == point_floor(r + 1, k)  cf == point_floor(r, k + 1)
        df == point_floor(r + 1, k + 1)
    IN  [s \in 8 .. 15 |->
           CASE s = 8 -> <<cc, dc, bc>>
             [] s = 9 -> <<dc, df, bf>>
             [] s = 10 -> <<dc, bf, bc>>
             [] s = 11 -> <<cc, cf, df>>
             [] s = 12 -> <<cc, df, dc>>
             [] s = 13 -> <<bc, bf, cf>>
             [] s = 14 -> <<cc, bc, cf>>
             [] s = 15 -> <<bf, df, cf>>]

\* variant: the column guard is off by one
HasNeighbourhood_m(r, k) == r < dem_rows - 1 /\ k < dem_cols - 2

\* the guard of the face block: the cell has a 2x2 neighbourhood
HasNeighbourhood(r, k) == r < dem_rows - 1 /\ k < dem_cols - 1

\* variants of the validity tests: corner C is not tested; A is tested for D
ValidABC_m(r, k) ==
    /\ HasNeighbourhood(r, k)
    /\ AboveThreshold(ZOf(r, k))
    /\ AboveThreshold(ZOf(r + 1, k))

ValidBCD_m(r, k) ==
    /\ HasNeighbourhood(r, k)
    /\ AboveThreshold(ZOf(r + 1, k))
    /\ AboveThreshold(ZOf(r, k))
    /\ AboveThreshold(ZOf(r, k + 1))

\* the two validity tests of the Builder
ValidABC(r, k) ==
    /\ HasNeighbourhood(r, k)
    /\ AboveThreshold(ZOf(r, k))
    /\ AboveThreshold(ZOf(r + 1, k))
    /\ AboveThreshold(ZOf(r, k + 1))

ValidBCD(r, k) ==
    /\ HasNeighbourhood(r, k)
    /\ AboveThreshold(ZOf(r + 1, k))
    /\ AboveThreshold(ZOf(r + 1, k + 1))
    /\ AboveThreshold(ZOf(r, k + 1))

\* position of the vertex of sample (r, k): <<2(x - xcent), 2(y - ycent), 10z>>
FloorPoint(r, k) ==
    LET i0_coord == dem_ymax - (dem_yres * r)
        j0_coord == dem_xmin + (dem_xres * k)
    IN  <<2 * j0_coord - clippoly_layer_extent_cent[1],
          2 * i0_coord - clippoly_layer_extent_cent[2],
          ZOf(r, k)>>

\* variant: both groups are written under the first validity test
BuiltSlots_m(old, r, k) ==
    [s \in 0 .. 15 |->
        IF s < 8
        THEN IF ValidABC(r, k) THEN FacesABC(r, k)[s] ELSE old[s]
        ELSE IF ValidABC(r, k) THEN FacesBCD(r, k)[s] ELSE old[s]]

\* the slots of cell (r, k) after its iteration, given the slots before it
BuiltSlots(old, r, k) ==
    [s \in 0 .. 15 |->
        IF s < 8
        THEN IF ValidABC(r, k) THEN FacesABC(r, k)[s] ELSE old[s]
        ELSE IF ValidBCD(r, k) THEN FacesBCD(r, k)[s] ELSE old[s]]

\* one iteration (i, j) of the Builder's nested loop (dem_x_min .. dem_y_max
\* and the progress counter only feed the log and are left out)
\* variant: the floor vertex is stored at an index striding by the row count
BuildCell_m ==
    /\ pc = "build"
    /\ polyhedron_points_floor_array' =
           [n \in DOMAIN polyhedron_points_floor_array |->
               IF n = (i * dem_rows) + j THEN FloorPoint(i, j)
               ELSE polyhedron_points_floor_array[n]]
    /\ polyhedron_faces_array' =
           [polyhedron_faces_array EXCEPT
               ![<<i, j>>] = BuiltSlots(polyhedron_faces_array[<<i, j>>], i, j)]
    /\ IF j < dem_cols - 1
       THEN /\ j' = j + 1 /\ i' = i /\ pc' = pc
       ELSE IF i < dem_rows - 1
            THEN /\ j' = 0 /\ i' = i + 1 /\ pc' = pc
            ELSE /\ j' = 0 /\ i' = 0 /\ pc' = "dedup"
    /\ UNCHANGED <<visited, dem_rows, dem_cols, dem_geotransform, dem_array, z_scale,
                   zmean_total, clippoly_layer_extent_cent,
                   polyhedron_faces_clean, polyhedron_points, c, scanned,
                   tool_vars>>

BuildCell ==
    /\ pc = "build"
    /\ polyhedron_points_floor_array' =
           [polyhedron_points_floor_array EXCEPT ![(i * dem_cols) + j] = FloorPoint(i, j)]
    /\ polyhedron_faces_array' =
           [polyhedron_faces_array EXCEPT
               ![<<i, j>>] = BuiltSlots(polyhedron_faces_array[<<i, j>>], i, j)]
    /\ IF j < dem_cols - 1
       THEN /\ j' = j + 1 /\ i' = i /\ pc' = pc
       ELSE IF i < dem_rows - 1
            THEN /\ j' = 0 /\ i' = i + 1 /\ pc' = pc
            ELSE /\ j' = 0 /\ i' = 0 /\ pc' = "dedup"
    /\ UNCHANGED <<visited, dem_rows, dem_cols, dem_geotransform, dem_array, z_scale,
                   zmean_total, clippoly_layer_extent_cent,
                   polyhedron_faces_clean, polyhedron_points, c, scanned,
                   tool_vars>>

---------------------------------------------------------------------------
(* generate_terrain: the Deduplicator loop *)

\* variant: a slot with any zero index counts as empty
IsPlaceholder_m(f) == f[1] = 0 \/ f[2] = 0 \/ f[3] = 0

\* the zero-filled placeholder test
IsPlaceholder(f) == f[1] = 0 /\ f[2] = 0 /\ f[3] = 0

\* variants of the window bounds with a neighbour left out
i_bottom_m(r) == r
i_top_m(r) == r
j_right_m(k) == IF k < dem_cols - 1 THEN k ELSE dem_cols

\* variant: the window never reaches to the left of the cell
j_left_m(r, k) == k

\* the search window of a candidate of cell (r, k), as the code computes it
i_bottom(r) == IF r > 0 THEN r - 1 ELSE 0
i_top(r) == IF r < dem_rows - 1 THEN r + 1 ELSE dem_rows - 1
j_left(r, k) == IF r > 0 THEN k - 1 ELSE 0
j_right(k) == IF k < dem_cols - 1 THEN k + 1 ELSE dem_cols

\* indexing an axis of length len with n: a negative n counts from the end,
\* and an n outside -len .. len-1 raises IndexError
IndexInRange(n, len) == -len <= n /\ n < len
ResolveIndex(n, len) == IF n < 0 THEN n + len ELSE n

\* some read of the scan of cell (r, k) raises IndexError
ScanRaises(r, k) ==
    \E kn \in j_left(r, k) .. j_right(k) : ~IndexInRange(kn, dem_cols)

\* sum of the numbers of a sequence
RECURSIVE SumSeq(_)
SumSeq(q) == IF q = <<>> THEN 0 ELSE Head(q) + SumSeq(Tail(q))

\* variant: a slot is located when any one of its indices agrees (np.any)
polyhedron_face_neighbour_cnt_m(f, slots) ==
    LET Loc(a) == Cardinality({s \in 0 .. 15 :
                      slots[s][1] = a[1] \/ slots[s][2] = a[2] \/ slots[s][3] = a[3]})
    IN  Loc(<<f[1], f[2], f[3]>>) + Loc(<<f[1], f[3], f[2]>>)
      + Loc(<<f[2], f[1], f[3]>>) + Loc(<<f[2], f[3], f[1]>>)
      + Loc(<<f[3], f[2], f[1]>>) + Loc(<<f[3], f[1], f[2]>>)

\* polyhedron_face_neighbour_cnt: len(loc1[0]) + ... + len(loc6[0]) for the
\* 16 slots of one scanned cell
polyhedron_face_neighbour_cnt(f, slots) ==
    LET Loc(a) == Cardinality({s \in 0 .. 15 : slots[s] = a})
    IN  Loc(<<f[1], f[2], f[3]>>) + Loc(<<f[1], f[3], f[2]>>)
      + Loc(<<f[2], f[1], f[3]>>) + Loc(<<f[2], f[3], f[1]>>)
      + Loc(<<f[3], f[2], f[1]>>) + Loc(<<f[3], f[1], f[2]>>)

\* variant: the scan counts in the cell itself and in the cells the loop has
\* been through already
polyhedron_face_cnt_m(f, r, k) ==
    LET InCell(rn, kn) ==
            LET q == <<rn, ResolveIndex(kn, dem_cols)>>
            IN  IF q = <<r, k>> \/ q \in visited
                THEN polyhedron_face_neighbour_cnt(f, polyhedron_faces_array[q])
                ELSE 0
        InRow(rn) ==
            SumSeq([n \in 1 .. j_right(k) - j_left(r, k) + 1 |->
                       InCell(rn, j_left(r, k) + n - 1)])
    IN  SumSeq([n \in 1 .. i_top(r) - i_bottom(r) + 1 |->
                   InRow(i_bottom(r) + n - 1)])

\* polyhedron_face_cnt of candidate f of cell (r, k) after the scan of its
\* window: the sum over every scanned (i_neighbour, j_neighbour)
polyhedron_face_cnt(f, r, k) ==
    LET InCell(rn, kn) ==
            polyhedron_face_neighbour_cnt(
                f, polyhedron_faces_array[<<rn, ResolveIndex(kn, dem_cols)>>])
        InRow(rn) ==
            SumSeq([n \in 1 .. j_right(k) - j_left(r, k) + 1 |->
                       InCell(rn, j_left(r, k) + n - 1)])
    IN  SumSeq([n \in 1 .. i_top(r) - i_bottom(r) + 1 |->
                   InRow(i_bottom(r) + n - 1)])

\* variant: keeps every face that was found at all
KeepCount_m(cnt) == cnt >= 1

\* the test that lets a candidate into the clean list
KeepCount(cnt) == cnt = 1

\* variant: every candidate is appended, whatever its count
Appended_m(r, k, s) == ~IsPlaceholder(polyhedron_faces_array[<<r, k>>][s])

\* slot s of cell (r, k) is appended by the iteration of that cell
Appended(r, k, s) ==
    LET f == polyhedron_faces_array[<<r, k>>][s]
    IN  /\ ~IsPlaceholder(f)
        /\ KeepCount(polyhedron_face_cnt(f, r, k))

\* variant: the slots of a cell are gone through from the last to the first
SlotOrder_m == [n \in 1 .. 16 |-> 16 - n]

\* range(0, 16): the slots of a cell in the order the loop takes them
SlotOrder == [n \in 1 .. 16 |-> n - 1]

\* the faces that iteration (r, k) appends, in slot order
AppendedFaces(r, k) ==
    LET IsAppended(s) == Appended(r, k, s)
        kept == SelectSeq(SlotOrder, IsAppended)
    IN  [n \in 1 .. Len(kept) |-> polyhedron_faces_array[<<r, k>>][kept[n]]]

\* the index pairs (i_neighbour, j_neighbour) with which the scans of the
\* candidates of cell (r, k) read the face table; a cell without a candidate
\* scans nothing
ScanReads(r, k) ==
    IF \E s \in 0 .. 15 : ~IsPlaceholder(polyhedron_faces_array[<<r, k>>][s])
    THEN (i_bottom(r) .. i_top(r)) \X (j_left(r, k) .. j_right(k))
    ELSE {}

\* one iteration (i, j) of the Deduplicator's nested loop
DedupCell ==
    /\ pc = "dedup"
    /\ scanned' = scanned \cup {<<<<i, j>>, q>> : q \in ScanReads(i, j)}
    /\ IF /\ \E s \in 0 .. 15 : ~IsPlaceholder(polyhedron_faces_array[<<i, j>>][s])
          /\ ScanRaises(i, j)
       THEN /\ pc' = "IndexError"
            /\ UNCHANGED <<polyhedron_faces_clean, i, j>>
       ELSE /\ polyhedron_faces_clean' = polyhedron_faces_clean \o AppendedFaces(i, j)
            /\ IF j < dem_cols - 1
               THEN /\ j' = j + 1 /\ i' = i /\ pc' = pc
               ELSE IF i < dem_rows - 1
                    THEN /\ j' = 0 /\ i' = i + 1 /\ pc' = pc
                    ELSE /\ j' = j /\ i' = i /\ pc' = "emit"
    /\ UNCHANGED <<visited, dem_rows, dem_cols, dem_geotransform, dem_array, z_scale,
                   zmean_total, clippoly_layer_extent_cent,
                   polyhedron_points_floor_array, polyhedron_faces_array,
                   polyhedron_points, c, tool_vars>>

---------------------------------------------------------------------------
(* generate_terrain: the Emitter *)

\* variant: an empty face list ends the run instead of being emitted
Emit_m ==
    /\ pc = "emit"
    /\ LET points == [n \in 1 .. dem_rows * dem_cols |->
                         polyhedron_points_floor_array[n - 1]]
       IN  IF polyhedron_faces_clean = <<>>
           THEN /\ pc' = "exit"
                /\ UNCHANGED <<polyhedron_points, c>>
           ELSE /\ polyhedron_points' = points
                /\ c' = [points |-> points, faces |-> polyhedron_faces_clean]
                /\ pc' = "done"
    /\ UNCHANGED <<visited, dem_rows, dem_cols, dem_geotransform, dem_array, z_scale,
                   zmean_total, clippoly_layer_extent_cent,
                   polyhedron_points_floor_array, polyhedron_faces_array,
                   polyhedron_faces_clean, i, j, scanned, tool_vars>>

\* the point list (one layer, l = 0) and the script; generate_terrain returns
Emit ==
    /\ pc = "emit"
    /\ LET points == [n \in 1 .. dem_rows * dem_cols |->
                         polyhedron_points_floor_array[n - 1]]
       IN  /\ polyhedron_points' = points
           /\ c' = [points |-> points, faces |-> polyhedron_faces_clean]
    /\ pc' = "done"
    /\ UNCHANGED <<visited, dem_rows, dem_cols, dem_geotransform, dem_array, z_scale,
                   zmean_total, clippoly_layer_extent_cent,
                   polyhedron_points_floor_array, polyhedron_faces_array,
                   polyhedron_faces_clean, i, j, scanned, tool_vars>>

---------------------------------------------------------------------------
(* dem_to_model2 and build_mesh *)

\* what the Shell call may return: the exit status of openscad, and its
\* standard error as a sequence of words
RetCodes == {0, 1}
StdErrs == {<<>>, <<"WARNING">>, <<"ERROR">>}

\* "ERROR" in stderr
ContainsError(err) == \E n \in 1 .. Len(err) : err[n] = "ERROR"

\* variant: only the exit status is tested
RenderFailed_m(rc, err) == rc # 0

\* the test after the Shell call
RenderFailed(rc, err) == rc # 0 \/ ContainsError(err)

\* the script lines are written to a temporary file that is kept on close
WriteScad ==
    /\ pc = "done"
    /\ scad_file' = [exists |-> TRUE, lines |-> c]
    /\ pc' = "render"
    /\ UNCHANGED <<visited, dem_rows, dem_cols, dem_geotransform, dem_array, z_scale,
                   zmean_total, clippoly_layer_extent_cent,
                   polyhedron_points_floor_array, polyhedron_faces_array,
                   polyhedron_faces_clean, polyhedron_points, c, i, j, scanned,
                   retcode, stderr, openscad_runs, build_mesh_result>>

\* variant: a failed render is tried a second time
Render_m ==
    /\ pc = "render"
    /\ \E rc \in RetCodes : \E err \in StdErrs :
          /\ retcode' = rc
          /\ stderr' = err
          /\ pc' = IF RenderFailed(rc, err)
                   THEN (IF openscad_runs = 0 THEN "render" ELSE "ApplicationError")
                   ELSE "rendered"
    /\ openscad_runs' = openscad_runs + 1
    /\ UNCHANGED <<visited, dem_rows, dem_cols, dem_geotransform, dem_array, z_scale,
                   zmean_total, clippoly_layer_extent_cent,
                   polyhedron_points_floor_array, polyhedron_faces_array,
                   polyhedron_faces_clean, polyhedron_points, c, i, j, scanned,
                   scad_file, build_mesh_result>>

\* openscad is run on the file; dem_to_model2 raises or returns
Render ==
    /\ pc = "render"
    /\ \E rc \in RetCodes : \E err \in StdErrs :
          /\ retcode' = rc
          /\ stderr' = err
          /\ pc' = IF RenderFailed(rc, err) THEN "ApplicationError" ELSE "rendered"
    /\ openscad_runs' = openscad_runs + 1
    /\ UNCHANGED <<visited, dem_rows, dem_cols, dem_geotransform, dem_array, z_scale,
                   zmean_total, clippoly_layer_extent_cent,
                   polyhedron_points_floor_array, polyhedron_faces_array,
                   polyhedron_faces_clean, polyhedron_points, c, i, j, scanned,
                   scad_file, build_mesh_result>>

\* build_mesh after dem_to_model2 returned: log the success, return True
BuildMeshReturn ==
    /\ pc = "rendered"
    /\ build_mesh_result' = "True"
    /\ pc' = "passed"
    /\ UNCHANGED <<visited, dem_rows, dem_cols, dem_geotransform, dem_array, z_scale,
                   zmean_total, clippoly_layer_extent_cent,
                   polyhedron_points_floor_array, polyhedron_faces_array,
                   polyhedron_faces_clean, polyhedron_points, c, i, j, scanned,
                   scad_file, retcode, stderr, openscad_runs>>

---------------------------------------------------------------------------
(* Vocabulary of the properties *)

\* the Builder has processed every cell and generate_terrain still runs or
\* has just returned
Built == pc \in {"dedup", "emit", "done"}

\* generate_terrain has returned its script to dem_to_model2
Returned == pc = "done"

\* the sample is one the Builder classifies as valid (passes "z > -5000")
SampleValid(p) == AboveThreshold(ZOf(p[1], p[2]))

\* the loader masked the sample to the sentinel (dem_array holds the offset
\* copy once the Builder runs)
SampleMasked(p) == dem_array[p] + zmean_total = dem_tmp_nodata

FullyValid == \A p \in Cells : SampleValid(p)

\* the grid sample a vertex index belongs to, ceiling or floor
SampleOfVertex(v) ==
    LET n == v % (dem_rows * dem_cols)
    IN  <<n \div dem_cols, n % dem_cols>>

VerticesOf(f) == {f[1], f[2], f[3]}

\* corner vertices (ceiling and floor) of a set of samples
CornerVertices(ps) ==
    {point_ceil(p[1], p[2]) : p \in ps} \cup {point_floor(p[1], p[2]) : p \in ps}

Populated(p, s) == polyhedron_faces_array[p][s] # <<0, 0, 0>>

PopulatedSlots(p) == {s \in 0 .. 15 : Populated(p, s)}

\* the three undirected edges of a face
EdgesOf(f) == {{f[1], f[2]}, {f[2], f[3]}, {f[3], f[1]}}

\* the number of faces of a list that contain the edge
EdgeIncidence(faces, e) ==
    Cardinality({n \in 1 .. Len(faces) : e \in EdgesOf(faces[n])})

\* g is one of the six orderings of the three vertex indices of f
IsOrdering(g, f) ==
    /\ g[1] = f[1] \/ g[1] = f[2] \/ g[1] = f[3]
    /\ \/ g = <<f[1], f[2], f[3]>> \/ g = <<f[1], f[3], f[2]>>
       \/ g = <<f[2], f[1], f[3]>> \/ g = <<f[2], f[3], f[1]>>
       \/ g = <<f[3], f[1], f[2]>> \/ g = <<f[3], f[2], f[1]>>

\* among the slots of the given cells, slot s of cell p is the only one that
\* holds an ordering of f
OccursOnlyAt(f, p, s, cells) ==
    \A q \in cells : \A t \in 0 .. 15 :
        IsOrdering(polyhedron_faces_array[q][t], f) => (q = p /\ t = s)

\* the 3x3 neighbourhood of a cell, clamped to the grid
Neighbourhood(p) ==
    {q \in ((p[1] - 1) .. (p[1] + 1)) \X ((p[2] - 1) .. (p[2] + 1)) : q \in Cells}

InList(faces, f) == \E n \in 1 .. Len(faces) : faces[n] = f

\* every slot of the face table in (row, column, slot) order
AllSlots ==
    [n \in 1 .. dem_rows * dem_cols * 16 |->
        <<<<(n - 1) \div (16 * dem_cols), ((n - 1) \div 16) % dem_cols>>,
          (n - 1) % 16>>]

\* boundary extraction by global incidence counting: the populated slots
\* whose vertex set occurs once in the whole table, in table order
GlobalCountList ==
    LET Single(q) ==
            /\ Populated(q[1], q[2])
            /\ OccursOnlyAt(polyhedron_faces_array[q[1]][q[2]], q[1], q[2], Cells)
        kept == SelectSeq(AllSlots, Single)
    IN  [n \in 1 .. Len(kept) |-> polyhedron_faces_array[kept[n][1]][kept[n][2]]]

---------------------------------------------------------------------------
(* Properties *)

\* C1  Watertightness.  When every sample of a grid with at least 2 rows and
\* 2 columns is valid, every undirected edge of a face of the returned face
\* list lies in exactly 2 faces of that list.
C1_Watertight ==
    (Returned /\ dem_rows >= 2 /\ dem_cols >= 2 /\ FullyValid) =>
        \A n \in 1 .. Len(c.faces) : \A e \in EdgesOf(c.faces[n]) :
            EdgeIncidence(c.faces, e) = 2

C1_Witness ==
    /\ Returned /\ dem_rows = 3 /\ dem_cols = 3 /\ FullyValid
    /\ \E n \in 1 .. Len(c.faces) : \E e \in EdgesOf(c.faces[n]) :
           EdgeIncidence(c.faces, e) = 2

\* C2  Keep/drop rule.  A populated slot is in the clean list exactly when its
\* triangle occurs once among the slots of the 3x3 neighbourhood of its cell
\* (itself included); when it occurs more than once there, no ordering of that
\* triangle is in the clean list.
C2_KeepDropRule ==
    Returned =>
        \A p \in Cells : \A s \in PopulatedSlots(p) :
            LET f == polyhedron_faces_array[p][s]
                once == OccursOnlyAt(f, p, s, Neighbourhood(p))
            IN  /\ InList(polyhedron_faces_clean, f) <=> once
                /\ ~once => \A m \in 1 .. Len(polyhedron_faces_clean) :
                                ~IsOrdering(polyhedron_faces_clean[m], f)

C2_Witness ==
    /\ Returned
    /\ \E p \in Cells : \E s, t \in PopulatedSlots(p) :
          /\ OccursOnlyAt(polyhedron_faces_array[p][s], p, s, Neighbourhood(p))
          /\ InList(polyhedron_faces_clean, polyhedron_faces_array[p][s])
          /\ ~OccursOnlyAt(polyhedron_faces_array[p][t], p, t, Neighbourhood(p))
          /\ ~InList(polyhedron_faces_clean, polyhedron_faces_array[p][t])

ValidAtOffset0(p) == AboveThreshold((dem_array[p] + zmean_total) * z_scale)

CornersABC(p) == {p, <<p[1] + 1, p[2]>>, <<p[1], p[2] + 1>>}
CornersBCD(p) == {<<p[1] + 1, p[2]>>, <<p[1], p[2] + 1>>, <<p[1] + 1, p[2] + 1>>}

\* the cell is not in the last row or the last column
Interior(p) == p[1] + 1 < dem_rows /\ p[2] + 1 < dem_cols

\* C5  Validity does not depend on the vertical offset.  For every heightfield
\* and every zmean_total the Builder classifies the samples as it would with
\* offset 0 (where the valid samples are the ones the loader did not mask), so
\* the populated half-cells are those populated with offset 0.
C5_OffsetIndependent ==
    Built =>
        \A p \in Cells :
            /\ (0 .. 7) \subseteq PopulatedSlots(p)
                  <=> (Interior(p) /\ \A q \in CornersABC(p) : ValidAtOffset0(q))
            /\ (8 .. 15) \subseteq PopulatedSlots(p)
                  <=> (Interior(p) /\ \A q \in CornersBCD(p) : ValidAtOffset0(q))

\* C6  Every vertex index of a face of the emitted polyhedron is an index
\* into the emitted point list (which is to hold a position for every ceiling
\* and every floor vertex): each face index is smaller than the number of
\* emitted points.
C6_FaceIndicesInPoints ==
    Returned =>
        \A n \in 1 .. Len(c.faces) : \A v \in VerticesOf(c.faces[n]) :
            v < Len(c.points)

\* C7  Deduplicated face count.  For a fully valid R x C grid with R, C >= 2
\* the returned list has 2*(R-1)*(C-1)*2 + 2*2*((R-1)+(C-1)) faces.
C7_CleanFaceCount ==
    (Returned /\ dem_rows >= 2 /\ dem_cols >= 2 /\ FullyValid) =>
        Len(c.faces) = 2 * (dem_rows - 1) * (dem_cols - 1) * 2
                       + 2 * 2 * ((dem_rows - 1) + (dem_cols - 1))

C7_Witness ==
    /\ Returned /\ dem_rows = 2 /\ dem_cols = 3 /\ FullyValid
    /\ Len(c.faces) = 20

\* the 3x3 grid of scenario 1: all-zero elevation, exaggeration 1.0, offset 0
FlatThreeByThree ==
    /\ dem_rows = 3 /\ dem_cols = 3
    /\ z_scale = 10 /\ zmean_total = 0
    /\ \A p \in Cells : dem_array[p] = 0

\* C8 as stated: the 3x3 all-zero grid yields exactly 24 triangles.
C8_TwentyFourFaces == (Returned /\ FlatThreeByThree) => Len(c.faces) = 24

\* C8 amended: the 3x3 all-zero grid (exaggeration 1.0, offset 0) yields
\* exactly 32 triangles: 16 ceiling and floor triangles and 16 perimeter wall
\* triangles.
C8_ThirtyTwoFaces == (Returned /\ FlatThreeByThree) => Len(c.faces) = 32

C8_Witness == Returned /\ FlatThreeByThree /\ Len(c.faces) = 32

PopulatedCount == Cardinality({q \in Cells \X (0 .. 15) : Populated(q[1], q[2])})

\* C9  Raw face count.  For a fully valid R x C grid the Builder populates
\* exactly 16*(R-1)*(C-1) slots: all 16 slots of every cell outside the last
\* row and the last column, none of any other cell.
C9_RawFaceCount ==
    (Built /\ FullyValid) =>
        /\ PopulatedCount = 16 * (dem_rows - 1) * (dem_cols - 1)
        /\ \A p \in Cells :
               PopulatedSlots(p) = IF Interior(p) THEN 0 .. 15 ELSE {}

C9_Witness ==
    /\ Built /\ FullyValid /\ dem_rows = 3 /\ dem_cols = 3
    /\ PopulatedCount = 64

\* the 3x3 grid of scenario 2: every sample valid but the centre (1,1)
CentreHole ==
    /\ dem_rows = 3 /\ dem_cols = 3
    /\ \A p \in Cells : SampleValid(p) <=> p # <<1, 1>>

\* C10  Scenario 2.  With only the centre sample of a 3x3 grid invalid, each
\* of the cells (0,0), (0,1), (1,0), (1,1) has fewer than 16 populated slots,
\* and no returned face refers to vertex 4 or vertex 13.
C10_CentreHole ==
    (Returned /\ CentreHole) =>
        /\ \A p \in {<<0, 0>>, <<0, 1>>, <<1, 0>>, <<1, 1>>} :
               Cardinality(PopulatedSlots(p)) < 16
        /\ \A n \in 1 .. Len(c.faces) :
               4 \notin VerticesOf(c.faces[n]) /\ 13 \notin VerticesOf(c.faces[n])

C10_Witness ==
    /\ Returned /\ CentreHole /\ SampleMasked(<<1, 1>>)
    /\ Len(c.faces) > 0
    /\ Cardinality(PopulatedSlots(<<0, 0>>)) = 8

\* the X coordinates (doubled) of the floor-array vertices, in index order
FloorXs ==
    [n \in 1 .. dem_rows * dem_cols |-> polyhedron_points_floor_array[n - 1][1]]

\* C11  Centering.  Without a clip polygon the X coordinates of the rows*cols
\* floor-array vertices sum to 0 (their arithmetic mean is 0).  (The Builder
\* leaves every sample half a pixel left of the centred position: the doubled
\* X coordinates sum to -xres*rows*cols.)
C11_CentredX == Built => SumSeq(FloorXs) = 0

\* the sample whose vertex is the n-th emitted point
SampleOfPoint(n) == <<(n - 1) \div dem_cols, (n - 1) % dem_cols>>

\* C12  Scaling.  The Z of every emitted point is the offset elevation of its
\* sample scaled by the exaggeration, and with the doubled exaggeration it is
\* exactly twice that; X and Y of every emitted point are given by the
\* geotransform and the extent alone, whatever the exaggeration.
C12_Scaling ==
    Returned =>
        \A n \in 1 .. Len(c.points) :
            LET p == SampleOfPoint(n)
                e == dem_array[p]
            IN  /\ c.points[n][3] = ScaledZ(e, z_scale)
                /\ ScaledZ(e, 2 * z_scale) = 2 * c.points[n][3]
                /\ c.points[n][1] =
                       2 * (dem_geotransform.xmin + dem_geotransform.xres * p[2])
                       - (2 * dem_geotransform.xmin + dem_cols * dem_geotransform.xres)
                /\ c.points[n][2] =
                       2 * (dem_geotransform.ymax - dem_geotransform.yres * p[1])
                       - (2 * dem_geotransform.ymax - dem_rows * dem_geotransform.yres)

C12_Witness ==
    /\ Returned /\ z_scale = 20 /\ Len(c.points) = dem_rows * dem_cols
    /\ \E n, m \in 1 .. Len(c.points) :
          /\ c.points[n][3] # 0 /\ c.points[n][3] = 20 * dem_array[SampleOfPoint(n)]
          /\ c.points[m][3] < -50000
          /\ c.points[n][1] # c.points[m][1]

\* the four corners A, B, C, D of a cell
CornersOf(p) == {p, <<p[1] + 1, p[2]>>, <<p[1], p[2] + 1>>, <<p[1] + 1, p[2] + 1>>}

\* the index of the vertex of sample q in a layer: 0 the ceiling, 1 the floor
VertexIndex(layer, q) ==
    IF layer = 0 THEN point_ceil(q[1], q[2]) ELSE point_floor(q[1], q[2])

\* C13  Vertex addressing (on the face table as generate_terrain returns with
\* it, which is the table the Builder left).  Every index in a populated slot
\* of cell (i,j) is i'*cols+j' or rows*cols+i'*cols+j' for one of the four
\* corners (i',j') of the cell; the index of (layer, i, j) lies in
\* 0 .. 2*rows*cols-1 and two different (layer, i, j) never have the same
\* index.
C13_VertexAddressing ==
    Returned =>
        /\ \A p \in Cells : \A s \in PopulatedSlots(p) :
              \A v \in VerticesOf(polyhedron_faces_array[p][s]) :
                 \E q \in CornersOf(p) :
                    \/ v = q[1] * dem_cols + q[2]
                    \/ v = dem_rows * dem_cols + q[1] * dem_cols + q[2]
        /\ \A l1 \in {0, 1} : \A q1 \in Cells :
              /\ VertexIndex(l1, q1) \in 0 .. 2 * dem_rows * dem_cols - 1
              /\ \A l2 \in {0, 1} : \A q2 \in Cells :
                    VertexIndex(l1, q1) = VertexIndex(l2, q2) => (l1 = l2 /\ q1 = q2)

C13_Witness ==
    /\ Returned /\ dem_rows = 3 /\ dem_cols = 2
    /\ PopulatedSlots(<<1, 0>>) = 0 .. 15
    /\ polyhedron_faces_array[<<1, 0>>][15] = <<10, 11, 9>>
    /\ polyhedron_faces_array[<<0, 0>>][0] = <<1, 2, 0>>

\* nothing of generate_terrain, dem_to_model2 or build_mesh has been computed
NothingComputed ==
    /\ polyhedron_points_floor_array = <<>>
    /\ polyhedron_faces_array = <<>>
    /\ polyhedron_faces_clean = <<>>
    /\ polyhedron_points = <<>>
    /\ c = <<>>
    /\ scanned = {}
    /\ ~scad_file.exists
    /\ openscad_runs = 0
    /\ build_mesh_result = "none"

\* C14  Empty-data failure.  When after the masking every sample is the
\* sentinel, read_dem ends the run: the run stops there for good, with no floor
\* vertex, face slot or script computed and the renderer not invoked; and a run
\* that goes on into generate_terrain has a sample that is not the sentinel.
C14_EmptyDataFailure ==
    /\ [](pc = "exit" => (NothingComputed /\ \A p \in Cells : dem_array[p] = -9999))
    /\ [](pc = "prepare" => \E p \in Cells : dem_array[p] # -9999)
    /\ [][/\ (pc = "read_dem" /\ \A p \in Cells : dem_array'[p] = -9999) => pc' = "exit"
          /\ pc # "exit"]_vars

C14_Witness ==
    /\ pc = "exit" /\ dem_rows = 1 /\ dem_cols = 1
    /\ dem_array[<<0, 0>>] = -9999
    /\ openscad_runs = 0

\* C15  Loader masking.  read_dem returns every sample v unchanged when
\* -500 <= v <= 9999 and as the sentinel -9999 otherwise, and masking the
\* returned sample once more leaves it as it is.
C15_LoaderMasking ==
    [][pc = "read_dem" =>
          \A p \in Cells :
              /\ dem_array'[p] = IF -500 <= dem_array[p] /\ dem_array[p] <= 9999
                                 THEN dem_array[p] ELSE -9999
              /\ MaskSample(dem_array'[p]) = dem_array'[p]]_vars

C15_Witness ==
    /\ pc = "prepare" /\ dem_rows = 1 /\ dem_cols = 2
    /\ dem_array[<<0, 0>>] = -9999
    /\ dem_array[<<0, 1>>] = 9999

\* the renderer has run and its exit status is not 0 or its standard error
\* has the word ERROR
RendererFailed ==
    /\ openscad_runs > 0
    /\ retcode # 0 \/ \E n \in DOMAIN stderr : stderr[n] = "ERROR"

\* C16  External tool failure.  dem_to_model2 raises its ApplicationError
\* exactly when the renderer has run and returned an exit status other than 0
\* or a standard error with ERROR in it; the script file written before the
\* call then still exists with the script in it, and build_mesh has neither
\* logged the success nor returned True; build_mesh returns True only after a
\* renderer run that did not fail.
C16_ExternalToolFailure ==
    /\ pc = "ApplicationError" <=> RendererFailed
    /\ pc = "ApplicationError" =>
          /\ scad_file.exists /\ scad_file.lines = c
          /\ build_mesh_result = "none"
    /\ build_mesh_result = "True" => (openscad_runs = 1 /\ ~RendererFailed)

C16_Witness ==
    /\ pc = "ApplicationError"
    /\ retcode = 0 /\ stderr = <<"ERROR">>
    /\ scad_file.exists /\ Len(scad_file.lines.faces) > 0
    /\ build_mesh_result = "none"

\* the index pairs with which the scans of the candidates of cell p have read
\* the face table
ReadsOf(p) == {e[2] : e \in {x \in scanned : x[1] = p}}

\* the 3x3 window of cell p clamped to the grid, as index pairs
ClampedWindow(p) ==
    ((IF p[1] > 0 THEN p[1] - 1 ELSE 0) ..
         (IF p[1] + 1 < dem_rows THEN p[1] + 1 ELSE dem_rows - 1))
    \X ((IF p[2] > 0 THEN p[2] - 1 ELSE 0) ..
         (IF p[2] + 1 < dem_cols THEN p[2] + 1 ELSE dem_cols - 1))

\* C17  The search window is clamped to the grid.  The index pairs with which
\* the scans of the candidates of a cell (i,j) read the face table are exactly
\* the rows max(0,i-1) .. min(rows-1,i+1) and the columns max(0,j-1) ..
\* min(cols-1,j+1), so that no index is below 0 or above rows-1 / cols-1.
C17_WindowClamped ==
    \A p \in Cells : ReadsOf(p) = {} \/ ReadsOf(p) = ClampedWindow(p)

\* the stages in their order; the three ways a run fails come last
StageRank(p) ==
    CASE p = "read_dem" -> 0
      [] p = "prepare" -> 1
      [] p = "build" -> 2
      [] p = "dedup" -> 3
      [] p = "emit" -> 4
      [] p = "done" -> 5
      [] p = "render" -> 6
      [] p = "rendered" -> 7
      [] p = "passed" -> 8
      [] p \in {"exit", "IndexError", "ApplicationError"} -> 9

\* a loop over the cells starts at (0,0), goes on to the next cell in
\* row-major order and is left from the last cell only
LoopInOrder(stage) ==
    /\ (pc # stage /\ pc' = stage) => (i' = 0 /\ j' = 0)
    /\ (pc = stage /\ pc' = stage) => (i' * dem_cols + j' = i * dem_cols + j + 1)
    /\ (pc = stage /\ StageRank(pc') \in StageRank(stage) + 1 .. 8) =>
           (i = dem_rows - 1 /\ j = dem_cols - 1)

\* C18  Strict forward stage order.  No stage is entered again; the Builder
\* visits every cell before the first candidate is examined, and the face table
\* is not written afterwards; candidates are examined and faces kept in the
\* Deduplicator stage only; the script is produced once, after the last cell's
\* candidates were decided; the renderer is run at most once, with the script
\* file already written.
C18_StageOrder ==
    [][/\ StageRank(pc') >= StageRank(pc)
       /\ LoopInOrder("build")
       /\ LoopInOrder("dedup")
       /\ (pc' = "dedup" /\ pc # "dedup") => pc = "build"
       /\ polyhedron_faces_array' # polyhedron_faces_array => pc \in {"prepare", "build"}
       /\ (scanned' # scanned \/ polyhedron_faces_clean' # polyhedron_faces_clean)
              => pc = "dedup"
       /\ pc' = "done" => (pc = "emit" /\ i = dem_rows - 1 /\ j = dem_cols - 1)
       /\ pc # "emit" => c' = c
       /\ openscad_runs' # openscad_runs =>
              /\ openscad_runs = 0 /\ openscad_runs' = 1
              /\ scad_file.exists /\ scad_file.lines = c]_vars

C18_Witness ==
    /\ pc = "passed" /\ dem_rows = 3 /\ dem_cols = 3
    /\ Len(polyhedron_faces_clean) > 0
    /\ scanned # {}
    /\ scad_file.exists /\ scad_file.lines = c
    /\ openscad_runs = 1

\* the Builder wrote slot s of cell p
Written(p, s) == IF s < 8 THEN ValidABC(p[1], p[2]) ELSE ValidBCD(p[1], p[2])

\* C19  Placeholder slots.  No [0,0,0] is in the clean list; a face the
\* Builder wrote has three pairwise distinct indices, so it is not taken for a
\* placeholder (the faces of cell (0,0) with vertex 0 included); its count in
\* a cell that has zero-filled slots is the number of populated slots of the
\* cell that hold an ordering of it, the zero-filled slots adding nothing; and
\* it is in the clean list when it occurs once in its neighbourhood.
C19_PlaceholderSlots ==
    Returned =>
        /\ \A n \in 1 .. Len(polyhedron_faces_clean) :
              polyhedron_faces_clean[n] # <<0, 0, 0>>
        /\ \A p \in Cells : \A s \in 0 .. 15 :
              Written(p, s) =>
                 LET f == polyhedron_faces_array[p][s]
                 IN  /\ f[1] # f[2] /\ f[2] # f[3] /\ f[1] # f[3]
                     /\ ~IsPlaceholder(f)
                     /\ \A q \in Neighbourhood(p) :
                           (\E t \in 0 .. 15 : ~Populated(q, t)) =>
                              polyhedron_face_neighbour_cnt(f, polyhedron_faces_array[q])
                                = Cardinality({t \in PopulatedSlots(q) :
                                      IsOrdering(polyhedron_faces_array[q][t], f)})
                     /\ OccursOnlyAt(f, p, s, Neighbourhood(p))
                           => InList(polyhedron_faces_clean, f)

C19_Witness ==
    /\ Returned /\ dem_rows = 3 /\ dem_cols = 3
    /\ Written(<<0, 0>>, 0) /\ ~Written(<<0, 0>>, 8)
    /\ polyhedron_faces_array[<<0, 0>>][0] = <<1, 3, 0>>
    /\ polyhedron_faces_array[<<0, 0>>][8] = <<0, 0, 0>>
    /\ InList(polyhedron_faces_clean, <<1, 3, 0>>)
    /\ ~InList(polyhedron_faces_clean, <<0, 0, 0>>)

InteriorCells == {p \in Cells : Interior(p)}

\* the triples g and f hold the same set of vertex indices
SameVertexSet(g, f) ==
    /\ g[1] = f[1] \/ g[1] = f[2] \/ g[1] = f[3]
    /\ VerticesOf(g) = VerticesOf(f)

\* the populated slots of the whole face table, as <<cell, slot, triple>>
TableSlots ==
    LET all == {<<p, s, polyhedron_faces_array[p][s]>> :
                   p \in InteriorCells, s \in 0 .. 15}
    IN  {x \in all : x[3] # <<0, 0, 0>>}

\* g is f with two of its indices exchanged (an odd permutation of f)
OddPermutation(g, f) ==
    \/ g = <<f[2], f[1], f[3]>>
    \/ g = <<f[1], f[3], f[2]>>
    \/ g = <<f[3], f[2], f[1]>>

\* C21  Duplicates have opposite winding.  Whenever two different populated
\* slots of the face table, in one cell or in two, hold the same set of three
\* vertex indices, the triple of one is an odd permutation of the other's.
C21_OppositeWinding ==
    Returned =>
        /\ \A p \in Cells : ~Interior(p) => PopulatedSlots(p) = {}
        /\ \A x, y \in TableSlots :
              (x # y /\ SameVertexSet(y[3], x[3])) => OddPermutation(y[3], x[3])

C21_Witness ==
    /\ Returned /\ dem_rows = 3 /\ dem_cols = 3
    /\ polyhedron_faces_array[<<0, 0>>][3] = <<10, 12, 3>>
    /\ polyhedron_faces_array[<<0, 0>>][13] = <<3, 12, 10>>
    /\ polyhedron_faces_array[<<0, 0>>][11] = <<1, 10, 13>>
    /\ polyhedron_faces_array[<<0, 1>>][1] = <<13, 10, 1>>
    /\ polyhedron_faces_array[<<0, 0>>][9] = <<4, 13, 12>>
    /\ polyhedron_faces_array[<<1, 0>>][5] = <<12, 13, 4>>

\* the three directed edges of a face, in its cyclic vertex order
DirectedEdgesOf(f) == {<<f[1], f[2]>>, <<f[2], f[3]>>, <<f[3], f[1]>>}

\* the positions of the list whose face has the directed edge
FacesWithDirectedEdge(faces, e) ==
    {n \in 1 .. Len(faces) : e \in DirectedEdgesOf(faces[n])}

\* C22  Consistent winding of the shell.  On a fully valid grid every directed
\* edge of the returned faces lies in exactly one face, and the reversed edge
\* in exactly one other face; every returned face is, index for index, a
\* triple the Builder stored in a slot.
C22_ConsistentWinding ==
    (Returned /\ dem_rows >= 2 /\ dem_cols >= 2 /\ FullyValid) =>
        \A n \in 1 .. Len(c.faces) :
            /\ \A e \in DirectedEdgesOf(c.faces[n]) :
                  /\ FacesWithDirectedEdge(c.faces, e) = {n}
                  /\ Cardinality(FacesWithDirectedEdge(c.faces, <<e[2], e[1]>>)) = 1
            /\ \E p \in InteriorCells : \E s \in 0 .. 15 :
                  polyhedron_faces_array[p][s] = c.faces[n]

C22_Witness ==
    /\ Returned /\ dem_rows = 3 /\ dem_cols = 3 /\ FullyValid
    /\ InList(c.faces, <<1, 3, 0>>)
    /\ InList(c.faces, <<1, 4, 3>>)
    /\ FacesWithDirectedEdge(c.faces, <<1, 3>>) # {}
    /\ FacesWithDirectedEdge(c.faces, <<3, 1>>) # {}

\* the place of slot s of cell p in the (row, column, slot) order
SlotRank(p, s) == ((p[1] * dem_cols) + p[2]) * 16 + s

\* C23  Order stability.  Every face of the clean list is the triple of a slot
\* of the face table, unchanged, and the faces follow one another in strictly
\* increasing (row, column, slot) order of the slots they came from.
C23_OrderStable ==
    Returned =>
        \A n \in 1 .. Len(polyhedron_faces_clean) :
            \E p \in InteriorCells : \E s \in 0 .. 15 :
                /\ polyhedron_faces_array[p][s] = polyhedron_faces_clean[n]
                /\ n > 1 =>
                      \E q \in InteriorCells : \E t \in 0 .. 15 :
                          /\ polyhedron_faces_array[q][t] = polyhedron_faces_clean[n - 1]
                          /\ SlotRank(q, t) < SlotRank(p, s)

C23_Witness ==
    /\ Returned /\ dem_rows = 3 /\ dem_cols = 3 /\ FullyValid
    /\ polyhedron_faces_clean[1] = <<1, 3, 0>>
    /\ polyhedron_faces_clean[2] = <<12, 9, 0>>
    /\ polyhedron_faces_clean[Len(polyhedron_faces_clean)] = <<16, 17, 14>>

\* the grid has fewer than 2 rows or fewer than 2 columns
Degenerate == dem_rows < 2 \/ dem_cols < 2

\* C24  Degenerate grid.  On a grid with fewer than 2 rows or 2 columns no
\* slot is populated, the clean list stays empty, the run raises no error (it
\* ends early only for a raster without data, before anything is computed),
\* and the returned script has a point for every sample and no face.
C24_DegenerateGrid ==
    Degenerate =>
        /\ pc # "IndexError"
        /\ pc = "exit" => NothingComputed
        /\ pc \in {"build", "dedup", "emit", "done"} =>
              /\ \A p \in Cells : PopulatedSlots(p) = {}
              /\ polyhedron_faces_clean = <<>>
        /\ Returned =>
              /\ c.faces = <<>>
              /\ Len(c.points) = dem_rows * dem_cols

C24_Witness ==
    /\ Returned /\ dem_rows = 1 /\ dem_cols = 3
    /\ c.faces = <<>> /\ Len(c.points) = 3
    /\ \A p \in Cells : SampleValid(p)

\* the classification a sample would get with z_scale = 1.0 (10 tenths) and
\* the same offset
ValidAtScale1(p) == dem_array[p] * 10 > -50000

\* C26  Face topology does not depend on the exaggeration.  For every
\* heightfield and every positive z_scale the populated half-cells are the
\* ones populated with z_scale = 1.
C26_ScaleIndependent ==
    Built =>
        \A p \in Cells :
            /\ (0 .. 7) \subseteq PopulatedSlots(p)
                  <=> (Interior(p) /\ \A q \in CornersABC(p) : ValidAtScale1(q))
            /\ (8 .. 15) \subseteq PopulatedSlots(p)
                  <=> (Interior(p) /\ \A q \in CornersBCD(p) : ValidAtScale1(q))

\* the undirected edges that lie in an odd number of the first n faces of
\* the list
RECURSIVE OddEdges(_, _)
OddEdges(faces, n) ==
    IF n = 0 THEN {}
    ELSE LET rest == OddEdges(faces, n - 1)
             e == EdgesOf(faces[n])
         IN  (rest \ e) \cup (e \ rest)

\* C27  Closed surface with holes.  For every grid and every validity pattern
\* each undirected edge of the clean list lies in an even number of its faces
\* (every face having three different edges): no edge is an open boundary.
C27_EvenIncidence ==
    Returned =>
        /\ \A n \in 1 .. Len(polyhedron_faces_clean) :
              Cardinality(EdgesOf(polyhedron_faces_clean[n])) = 3
        /\ OddEdges(polyhedron_faces_clean, Len(polyhedron_faces_clean)) = {}

C27_Witness ==
    /\ Returned /\ CentreHole
    /\ Len(polyhedron_faces_clean) > 0
    /\ OddEdges(polyhedron_faces_clean, Len(polyhedron_faces_clean)) = {}
    /\ EdgeIncidence(polyhedron_faces_clean, {0, 1}) = 2
    /\ EdgeIncidence(polyhedron_faces_clean, {1, 3}) = 2
    /\ EdgeIncidence(polyhedron_faces_clean, {4, 13}) = 0

\* the half-cell (first half: corners A, B, C; second half: B, C, D) of cell q
\* exists and is populated
HalfPopulated(q, first) ==
    /\ q \in Cells /\ Interior(q)
    /\ Populated(q, IF first THEN 0 ELSE 8)

\* the half-cell on the other side of the wall of slot s of cell p:
\* <<cell, whether it is the first half>>
OtherSide(p, s) ==
    CASE s \in {1, 2} -> <<<<p[1], p[2] - 1>>, FALSE>>
      [] s \in {5, 6} -> <<<<p[1] - 1, p[2]>>, FALSE>>
      [] s \in {3, 4} -> <<p, FALSE>>
      [] s \in {9, 10} -> <<<<p[1] + 1, p[2]>>, TRUE>>
      [] s \in {11, 12} -> <<<<p[1], p[2] + 1>>, TRUE>>
      [] s \in {13, 14} -> <<p, TRUE>>

\* C28  Which faces survive.  Of a populated half-cell the ceiling (slots 0,
\* 8) and floor (slots 7, 15) triangles are always in the clean list, and a
\* wall triangle is in it exactly when the half-cell on the other side of the
\* wall is not populated or does not exist.
C28_Survivors ==
    Returned =>
        \A p \in InteriorCells : \A s \in PopulatedSlots(p) :
            InList(polyhedron_faces_clean, polyhedron_faces_array[p][s])
              <=> \/ s \in {0, 7, 8, 15}
                  \/ ~HalfPopulated(OtherSide(p, s)[1], OtherSide(p, s)[2])

C28_Witness ==
    /\ Returned /\ dem_rows = 3 /\ dem_cols = 3
    /\ \A q \in Cells : SampleValid(q) <=> q # <<2, 2>>
    /\ PopulatedSlots(<<0, 0>>) = 0 .. 15
    /\ PopulatedSlots(<<1, 1>>) = 0 .. 7
    /\ InList(polyhedron_faces_clean, polyhedron_faces_array[<<0, 0>>][0])
    /\ ~InList(polyhedron_faces_clean, polyhedron_faces_array[<<0, 0>>][3])
    /\ ~InList(polyhedron_faces_clean, polyhedron_faces_array[<<0, 0>>][11])
    /\ InList(polyhedron_faces_clean, polyhedron_faces_array[<<1, 1>>][3])
    /\ ~InList(polyhedron_faces_clean, polyhedron_faces_array[<<1, 1>>][1])
    /\ InList(polyhedron_faces_clean, polyhedron_faces_array[<<1, 1>>][7])

\* two cells are the same or next to each other in a row or in a column
SameOrAdjacent(p, q) ==
    \/ p = q
    \/ p[1] = q[1] /\ (p[2] = q[2] + 1 \/ q[2] = p[2] + 1)
    \/ p[2] = q[2] /\ (p[1] = q[1] + 1 \/ q[1] = p[1] + 1)

\* the populated slots, other than slot s of cell p, that hold the three
\* vertex indices of that slot
SlotsSharing(p, s) ==
    {<<x[1], x[2]>> : x \in
        {y \in TableSlots :
            /\ <<y[1], y[2]>> # <<p, s>>
            /\ SameVertexSet(y[3], polyhedron_faces_array[p][s])}}

\* C29  Bounded multiplicity.  Each set of three vertex indices is held by at
\* most 2 populated slots of the whole face table, and when by 2, these lie in
\* one cell or in two cells next to each other in a row or in a column.
C29_BoundedMultiplicity ==
    Returned =>
        LET slots == TableSlots
        IN  \A y \in slots :
                LET same == {x \in slots : x # y /\ SameVertexSet(x[3], y[3])}
                IN  /\ Cardinality(same) <= 1
                    /\ \A x \in same : SameOrAdjacent(y[1], x[1])

C29_Witness ==
    /\ Returned /\ dem_rows = 3 /\ dem_cols = 3
    /\ SlotsSharing(<<0, 0>>, 3) = {<<<<0, 0>>, 13>>}
    /\ SlotsSharing(<<0, 0>>, 11) = {<<<<0, 1>>, 1>>}
    /\ SlotsSharing(<<0, 0>>, 9) = {<<<<1, 0>>, 5>>}
    /\ SlotsSharing(<<0, 0>>, 0) = {}

---------------------------------------------------------------------------
(* Frame conditions of the two loops *)

\* the floor entries and the cells a step has changed
ChangedFloorEntries ==
    {n \in DOMAIN polyhedron_points_floor_array :
        polyhedron_points_floor_array'[n] # polyhedron_points_floor_array[n]}

ChangedCells ==
    {p \in Cells : polyhedron_faces_array'[p] # polyhedron_faces_array[p]}

\* C30  Frame conditions.  The Builder iteration of cell (i, j) changes no
\* floor vertex entry but entry i*cols + j and no slot but the sixteen of cell
\* (i, j), and a slot that was populated keeps its content; an iteration of the
\* Deduplicator changes neither the face table nor the vertex array; the
\* numbers of rows and columns stay what they were at load.
C30_FrameConditions ==
    [][/\ pc = "build" =>
              /\ ChangedFloorEntries \subseteq {(i * dem_cols) + j}
              /\ ChangedCells \subseteq {<<i, j>>}
              /\ \A p \in Cells : \A s \in 0 .. 15 :
                     Populated(p, s) =>
                         polyhedron_faces_array'[p][s] = polyhedron_faces_array[p][s]
       /\ pc = "dedup" =>
              /\ polyhedron_faces_array' = polyhedron_faces_array
              /\ polyhedron_points_floor_array' = polyhedron_points_floor_array
       /\ dem_rows' = dem_rows
       /\ dem_cols' = dem_cols]_vars

\* both loops have run over a 2x3 raster, the Builder wrote the floor entry of
\* the last cell and populated slots, and the Deduplicator kept faces
C30_Witness ==
    /\ pc = "emit"
    /\ dem_rows = 2 /\ dem_cols = 3
    /\ polyhedron_points_floor_array[5] = FloorPoint(1, 2)
    /\ PopulatedSlots(<<0, 1>>) # {}
    /\ Len(polyhedron_faces_clean) > 0

---------------------------------------------------------------------------
(* The loops with their iterations in any order *)

\* the rasters of Init that are small enough, read with the flat scenario
InitAnyOrder ==
    /\ Init
    /\ dem_rows * dem_cols <= MaxAnyCells
    /\ z_scale = 10 /\ zmean_total = 0 /\ dem_geotransform.xres = 1

\* the body of the Builder's loop (lines 146-229) run for a cell the loop has
\* not been through; the stage ends with the last cell
BuildAnyCell ==
    /\ pc = "build"
    /\ \E p \in Cells \ visited :
          /\ polyhedron_points_floor_array' =
                 [polyhedron_points_floor_array EXCEPT
                     ![(p[1] * dem_cols) + p[2]] = FloorPoint(p[1], p[2])]
          /\ polyhedron_faces_array' =
                 [polyhedron_faces_array EXCEPT
                     ![p] = BuiltSlots(polyhedron_faces_array[p], p[1], p[2])]
          /\ IF visited \cup {p} = Cells
             THEN /\ pc' = "dedup" /\ visited' = {}
             ELSE /\ pc' = pc /\ visited' = visited \cup {p}
    /\ UNCHANGED <<dem_rows, dem_cols, dem_geotransform, dem_array, z_scale,
                   zmean_total, clippoly_layer_extent_cent,
                   polyhedron_faces_clean, polyhedron_points, c, i, j, scanned,
                   tool_vars>>

\* the body of the Deduplicator's loop (lines 240-285) run for a cell the loop
\* has not been through; the stage ends with the last cell
DedupAnyCell ==
    /\ pc = "dedup"
    /\ \E p \in Cells \ visited :
          /\ scanned' = scanned \cup {<<p, q>> : q \in ScanReads(p[1], p[2])}
          /\ IF ScanReads(p[1], p[2]) # {} /\ ScanRaises(p[1], p[2])
             THEN /\ pc' = "IndexError"
                  /\ UNCHANGED <<polyhedron_faces_clean, visited>>
             ELSE /\ polyhedron_faces_clean' =
                         polyhedron_faces_clean \o AppendedFaces(p[1], p[2])
                  /\ visited' = visited \cup {p}
                  /\ pc' = IF visited \cup {p} = Cells THEN "emit" ELSE pc
    /\ UNCHANGED <<dem_rows, dem_cols, dem_geotransform, dem_array, z_scale,
                   zmean_total, clippoly_layer_extent_cent,
                   polyhedron_points_floor_array, polyhedron_faces_array,
                   polyhedron_points, c, i, j, tool_vars>>

NextAnyOrder ==
    \/ ReadDem
    \/ Prepare
    \/ BuildAnyCell
    \/ DedupAnyCell
    \/ Emit

\* the cells in the order of the nested loops: rows outside, columns inside
RowMajor ==
    [n \in 1 .. dem_rows * dem_cols |-> <<(n - 1) \div dem_cols, (n - 1) % dem_cols>>]

\* the face table and the floor vertices the Builder leaves when it goes
\* through the cells in row-major order
RowMajorFaceTable ==
    [p \in Cells |-> BuiltSlots([k \in 0 .. 15 |-> <<0, 0, 0>>], p[1], p[2])]

RowMajorFloorArray ==
    [n \in 0 .. dem_rows * dem_cols - 1 |->
        FloorPoint(n \div dem_cols, n % dem_cols)]

\* the clean list the Deduplicator leaves when it goes through the first n
\* cells of the finished face table in row-major order
RECURSIVE RowMajorClean(_)
RowMajorClean(n) ==
    IF n = 0 THEN <<>>
    ELSE RowMajorClean(n - 1) \o AppendedFaces(RowMajor[n][1], RowMajor[n][2])

FaceSet(faces) == {faces[n] : n \in 1 .. Len(faces)}

\* C25  Order independence of the per-cell work.  Whatever the order in which
\* the Builder's iterations ran, the face table and the floor vertices are the
\* ones of the row-major run when the Builder has finished; whatever the order
\* in which the Deduplicator's iterations ran over the finished table, the
\* table is still that one when it has finished, and the set of the faces it
\* kept (and their number) is the one of the row-major scan.
C25_OrderIndependent ==
    /\ (pc = "dedup" /\ visited = {}) =>
          /\ polyhedron_faces_array = RowMajorFaceTable
          /\ polyhedron_points_floor_array = RowMajorFloorArray
    /\ pc = "emit" =>
          /\ polyhedron_faces_array = RowMajorFaceTable
          /\ FaceSet(polyhedron_faces_clean)
               = FaceSet(RowMajorClean(dem_rows * dem_cols))
          /\ Len(polyhedron_faces_clean) = Len(RowMajorClean(dem_rows * dem_cols))

\* a 3x3 raster whose Deduplicator went through the cells in another order
\* than row-major: the clean list starts with a face of cell (1,1), and holds
\* faces of cell (0,0) too
C25_Witness ==
    /\ pc = "done" /\ dem_rows = 3 /\ dem_cols = 3
    /\ Len(c.faces) > 0
    /\ \E s \in 0 .. 15 : c.faces[1] = polyhedron_faces_array[<<1, 1>>][s]
    /\ polyhedron_faces_clean # RowMajorClean(9)
    /\ \E n \in 1 .. Len(c.faces) : c.faces[n] = polyhedron_faces_array[<<0, 0>>][0]

---------------------------------------------------------------------------

Next ==
    \/ ReadDem \/ Prepare \/ BuildCell \/ DedupCell \/ Emit
    \/ WriteScad \/ Render \/ BuildMeshReturn

Spec == Init /\ [][Next]_vars

\* the same program on one-row rasters of arbitrary samples
SpecMask == InitMask /\ [][Next]_vars

\* generate_terrain with the iterations of each loop taken in any order
SpecAnyOrder == InitAnyOrder /\ [][NextAnyOrder]_vars

====
